---- MODULE Spec2Model ----
(***************************************************************************)
(* A model of the two widgets of src/input/input.go: the single-line text  *)
(* input (package input) and the scrolling viewport (package viewport).    *)
(* Strings are sequences of bytes, slices follow Go's rules (an index out  *)
(* of range is a run-time panic that ends the program).                    *)
(***************************************************************************)
EXTENDS Integers, Sequences, FiniteSets, TLC

\* ------------------------------------------------------------------ bounds

\* longest Value (in bytes) the text input is driven to, and the most bytes
\* it is driven to remove from a prefilled value
MaxLen == 3
MaxDeleted == 1

\* ------------------------------------------------------------- Go helpers

\* Go's s[a:b] is defined only for 0 <= a <= b <= len(s); anything else panics
SliceOK(s, a, b) == 0 <= a /\ a <= b /\ b <= Len(s)

\* Go's s[a:b] where it is defined
Slice(s, a, b) == SubSeq(s, a + 1, b)

\* ----------------------------------------------------------- package input

\* the strings msg.String() yields for a KeyRune message: a one-byte rune and
\* a two-byte rune (U+00E9 in UTF-8)
Runes == { <<"a">>, <<"c3", "a9">> }

\* one-byte (ASCII) values
Ascii == { "a", " " }

\* Go's string(b) for a byte b: the UTF-8 encoding of the code point b
ByteToString(b) ==
  CASE b \in Ascii -> <<b>>
    [] b = "c3"    -> <<"c3", "83">>
    [] b = "a9"    -> <<"c2", "a9">>
    [] OTHER       -> <<b>>

VARIABLES
  Value,     \* input.Model.Value, a sequence of bytes
  pos,       \* input.Model.pos
  blink,     \* input.Model.blink
  tfLast,    \* the last call on the text input, the model it was given
             \* and what it returned
  blinks,    \* the number of CursorBlinkMsg delivered so far, modulo 2
  panicked   \* a run-time panic ended the program

tfVars == <<Value, pos, blink, tfLast, blinks>>

\* the model as Update receives it
TheModel == [Value |-> Value, pos |-> pos, blink |-> blink]

\* a handler's result: the model and the command returned (every return of
\* Update is "return m, nil"), or a panic
Ret(m) == [m |-> m, cmd |-> "nil", panic |-> FALSE]
Panic(m) == [m |-> m, cmd |-> "nil", panic |-> TRUE]

\* input.DefaultModel
DefaultModel == [Value |-> <<>>, pos |-> 0, blink |-> FALSE]

\* Update, case tea.KeyBackspace / tea.KeyDelete
KeyBackspace(m) ==
  IF Len(m.Value) > 0
  THEN IF SliceOK(m.Value, 0, m.pos - 1) /\ SliceOK(m.Value, m.pos, Len(m.Value))
       THEN Ret([m EXCEPT !.Value = Slice(m.Value, 0, m.pos - 1)
                                      \o Slice(m.Value, m.pos, Len(m.Value)),
                          !.pos = m.pos - 1])
       ELSE Panic(m)
  ELSE Ret(m)

\* Update, case tea.KeyLeft
KeyLeft(m) == IF m.pos > 0 THEN Ret([m EXCEPT !.pos = m.pos - 1]) ELSE Ret(m)

\* Update, case tea.KeyRight
KeyRight(m) ==
  IF m.pos < Len(m.Value) THEN Ret([m EXCEPT !.pos = m.pos + 1]) ELSE Ret(m)

\* Update, case tea.KeyCtrlA
KeyCtrlA(m) == Ret([m EXCEPT !.pos = 0])

\* Update, case tea.KeyCtrlD, moving the caret as a backspace does
KeyCtrlD_MovesCaret(m) ==
  IF Len(m.Value) > 0 /\ m.pos < Len(m.Value)
  THEN IF SliceOK(m.Value, 0, m.pos) /\ SliceOK(m.Value, m.pos + 1, Len(m.Value))
       THEN Ret([m EXCEPT !.Value = Slice(m.Value, 0, m.pos)
                                      \o Slice(m.Value, m.pos + 1, Len(m.Value)),
                          !.pos = m.pos - 1])
       ELSE Panic(m)
  ELSE Ret(m)

\* Update, case tea.KeyCtrlD, removing the unit before the caret as a
\* backspace does
KeyCtrlD_BeforeCaret(m) ==
  IF Len(m.Value) > 0 /\ m.pos < Len(m.Value)
  THEN IF SliceOK(m.Value, 0, m.pos - 1) /\ SliceOK(m.Value, m.pos, Len(m.Value))
       THEN Ret([m EXCEPT !.Value = Slice(m.Value, 0, m.pos - 1)
                                      \o Slice(m.Value, m.pos, Len(m.Value))])
       ELSE Panic(m)
  ELSE Ret(m)

\* Update, case tea.KeyCtrlD
KeyCtrlD(m) ==
  IF Len(m.Value) > 0 /\ m.pos < Len(m.Value)
  THEN IF SliceOK(m.Value, 0, m.pos) /\ SliceOK(m.Value, m.pos + 1, Len(m.Value))
       THEN Ret([m EXCEPT !.Value = Slice(m.Value, 0, m.pos)
                                      \o Slice(m.Value, m.pos + 1, Len(m.Value))])
       ELSE Panic(m)
  ELSE Ret(m)

\* Update, case tea.KeyCtrlE
KeyCtrlE(m) == Ret([m EXCEPT !.pos = Len(m.Value) - 1])

\* Update, case tea.KeyCtrlK
KeyCtrlK(m) ==
  IF SliceOK(m.Value, 0, m.pos)
  THEN Ret([m EXCEPT !.Value = Slice(m.Value, 0, m.pos),
                     !.pos = Len(Slice(m.Value, 0, m.pos))])
  ELSE Panic(m)

\* Update, case tea.KeyRune, appending s instead of inserting it at the caret
KeyRune_Append(m, s) ==
  IF SliceOK(m.Value, 0, m.pos) /\ SliceOK(m.Value, m.pos, Len(m.Value))
  THEN Ret([m EXCEPT !.Value = m.Value \o s, !.pos = m.pos + 1])
  ELSE Panic(m)

\* Update, case tea.KeyRune; s is msg.String()
KeyRune(m, s) ==
  IF SliceOK(m.Value, 0, m.pos) /\ SliceOK(m.Value, m.pos, Len(m.Value))
  THEN Ret([m EXCEPT !.Value = Slice(m.Value, 0, m.pos) \o s
                                 \o Slice(m.Value, m.pos, Len(m.Value)),
                     !.pos = m.pos + 1])
  ELSE Panic(m)

\* Update, case CursorBlinkMsg, showing the cursor instead of toggling it
CursorBlink_Sticky(m) == Ret([m EXCEPT !.blink = TRUE])

\* Update, case CursorBlinkMsg
CursorBlink(m) == Ret([m EXCEPT !.blink = ~m.blink])

\* the messages Update is given: msg.Type of a key message, or the kind of
\* another message; a KeyRune carries its string
KeyTypes == { "KeyBackspace", "KeyDelete", "KeyLeft", "KeyRight", "KeyCtrlA",
              "KeyCtrlD", "KeyCtrlE", "KeyCtrlK", "KeyEnter" }
Msgs == [type : KeyTypes \cup {"CursorBlinkMsg", "OtherMsg"}, s : {<<>>}]
          \cup [type : {"KeyRune"}, s : Runes]

\* input.Update: the model returned for msg (the command returned is always nil)
InputUpdate(msg, m) ==
  CASE msg.type \in {"KeyBackspace", "KeyDelete"} -> KeyBackspace(m)
    [] msg.type = "KeyLeft"  -> KeyLeft(m)
    [] msg.type = "KeyRight" -> KeyRight(m)
    [] msg.type = "KeyCtrlA" -> KeyCtrlA(m)
    [] msg.type = "KeyCtrlD" -> KeyCtrlD(m)
    [] msg.type = "KeyCtrlE" -> KeyCtrlE(m)
    [] msg.type = "KeyCtrlK" -> KeyCtrlK(m)
    [] msg.type = "KeyRune"  -> KeyRune(m, msg.s)
    [] msg.type = "CursorBlinkMsg" -> CursorBlink(m)
    [] OTHER -> Ret(m)

\* input.cursor; tea.Invert wraps s in the invert-video escape codes
cursor(s, b) == IF b THEN s ELSE <<"ESC[7m">> \o s \o <<"ESC[0m">>

\* the prompt of DefaultModel, as one token
Prompt == <<"> ">>

\* whether input.View panics on m: its slices and its index must be in range
InputViewPanics(m) ==
  \/ ~SliceOK(m.Value, 0, m.pos)
  \/ /\ m.pos < Len(m.Value)
     /\ ~SliceOK(m.Value, m.pos + 1, Len(m.Value))

\* input.View where it does not panic
InputView(m) ==
  IF m.pos < Len(m.Value)
  THEN Prompt \o Slice(m.Value, 0, m.pos)
              \o cursor(ByteToString(m.Value[m.pos + 1]), m.blink)
              \o Slice(m.Value, m.pos + 1, Len(m.Value))
  ELSE Prompt \o Slice(m.Value, 0, m.pos) \o cursor(<<" ">>, m.blink)

\* -------------------------------------------------------- package viewport

\* most lines a content has, largest Height, largest n of LineDown/LineUp,
\* and the furthest a YOffset is driven below 0
MaxLines == 5
MaxHeight == 3
MaxN == 3
MaxNeg == 2

LF == "\n"
CR == "\r"

\* viewport.min, viewport.max, viewport.clamp
min(a, b) == IF a < b THEN a ELSE b
max(a, b) == IF a > b THEN a ELSE b
clamp(val, low, high) == max(low, min(high, val))

\* Go's a / 2 on ints truncates toward zero
Half(a) == IF a >= 0 THEN a \div 2 ELSE -((-a) \div 2)

\* strings.Replace(s, "\r\n", "\n", -1)
RECURSIVE ReplaceCRLF(_)
ReplaceCRLF(s) ==
  IF Len(s) = 0 THEN <<>>
  ELSE IF Len(s) >= 2 /\ s[1] = CR /\ s[2] = LF
       THEN <<LF>> \o ReplaceCRLF(SubSeq(s, 3, Len(s)))
       ELSE <<s[1]>> \o ReplaceCRLF(Tail(s))

\* strings.Split(s, "\n"): the pieces between the separators, at least one
RECURSIVE SplitLF(_)
SplitLF(s) ==
  IF \A i \in 1..Len(s) : s[i] # LF THEN <<s>>
  ELSE LET i == CHOOSE j \in 1..Len(s) :
                  s[j] = LF /\ \A k \in 1..(j - 1) : s[k] # LF
       IN <<SubSeq(s, 1, i - 1)>> \o SplitLF(SubSeq(s, i + 1, Len(s)))

\* strings.Join(a, "\n")
RECURSIVE JoinLF(_)
JoinLF(a) ==
  IF Len(a) = 0 THEN <<>>
  ELSE IF Len(a) = 1 THEN a[1]
       ELSE a[1] \o <<LF>> \o JoinLF(Tail(a))

\* strings.Repeat("\n", k), for k >= 0 (a negative count panics)
RepeatLF(k) == [i \in 1..k |-> LF]

\* the texts SetContent is given: k numbered lines separated by sep (the
\* empty text is Text(0, sep)), one of them with "\r\n" and one that ends in
\* a separator
RECURSIVE Text(_, _)
Text(k, sep) ==
  IF k = 0 THEN <<>>
  ELSE IF k = 1 THEN <<ToString(1)>>
       ELSE Text(k - 1, sep) \o sep \o <<ToString(k)>>
Contents ==
  { Text(k, <<LF>>) : k \in 0..MaxLines }
    \cup { Text(2, <<CR, LF>>), Text(1, <<LF>>) \o <<LF>> }

VARIABLES
  Err,                       \* viewport.Model.Err ("" is nil)
  Width,                     \* viewport.Model.Width
  Height,                    \* viewport.Model.Height
  YOffset,                   \* viewport.Model.YOffset
  YPosition,                 \* viewport.Model.YPosition
  HighPerformanceRendering,  \* viewport.Model.HighPerformanceRendering
  lines,                     \* viewport.Model.lines
  svLast,                    \* the last call on the viewport and what it returned
  since,                     \* what happened since the content was fixed
  run                        \* the one downward navigation repeated since the
                             \* content was fixed at offset 0, if that is all

svVars == <<Err, Width, Height, YOffset, YPosition, HighPerformanceRendering,
            lines, svLast, since, run>>

vars == <<tfVars, svVars, panicked>>

\* the viewport model as its functions and methods receive it
TheViewport ==
  [Err |-> Err, Width |-> Width, Height |-> Height, YOffset |-> YOffset,
   YPosition |-> YPosition,
   HighPerformanceRendering |-> HighPerformanceRendering, lines |-> lines]

\* viewport.NewModel
NewModel(width, height) ==
  [Err |-> "", Width |-> width, Height |-> height, YOffset |-> 0,
   YPosition |-> 0, HighPerformanceRendering |-> FALSE, lines |-> <<>>]

\* Model.SetSize has a value receiver: it assigns to its own copy of the
\* model, so the caller's model is what it was
SetSize(m, yPos, width, height) ==
  LET copy == [m EXCEPT !.YPosition = yPos, !.Width = width, !.Height = height]
  IN m

\* Model.AtTop, Model.AtBottom
AtTop(m) == m.YOffset <= 0
AtBottom(m) == m.YOffset >= Len(m.lines) - m.Height - 1

\* Model.SetContent
SetContent(m, s) == [m EXCEPT !.lines = SplitLF(ReplaceCRLF(s))]

\* Model.ViewDown without its fallback: the target alone
ModelViewDown_NoFallback(m) ==
  IF AtBottom(m) THEN m
  ELSE [m EXCEPT !.YOffset = m.YOffset + m.Height]

\* Model.ViewDown
ModelViewDown(m) ==
  IF AtBottom(m) THEN m
  ELSE [m EXCEPT !.YOffset = min(m.YOffset + m.Height, Len(m.lines) - m.Height)]

\* Model.ViewUp with a step one line too long
ModelViewUp_OffByOne(m) ==
  IF AtTop(m) THEN m
  ELSE [m EXCEPT !.YOffset = max(m.YOffset - m.Height - 1, 0)]

\* Model.ViewUp
ModelViewUp(m) ==
  IF AtTop(m) THEN m
  ELSE [m EXCEPT !.YOffset = max(m.YOffset - m.Height, 0)]

\* Model.HalfViewDown
ModelHalfViewDown(m) ==
  IF AtBottom(m) THEN m
  ELSE [m EXCEPT !.YOffset = min(m.YOffset + Half(m.Height),
                                 Len(m.lines) - m.Height)]

\* Model.HalfViewUp
ModelHalfViewUp(m) ==
  IF AtTop(m) THEN m
  ELSE [m EXCEPT !.YOffset = max(m.YOffset - Half(m.Height), 0)]

\* Model.LineDown without its fallback: the target alone
ModelLineDown_NoFallback(m, n) ==
  IF AtBottom(m) \/ n = 0 THEN m
  ELSE [m EXCEPT !.YOffset = m.YOffset + n]

\* Model.LineDown
ModelLineDown(m, n) ==
  IF AtBottom(m) \/ n = 0 THEN m
  ELSE [m EXCEPT !.YOffset = min(m.YOffset + n, Len(m.lines) - m.Height)]

\* Model.LineUp
ModelLineUp(m, n) ==
  IF AtTop(m) \/ n = 0 THEN m
  ELSE [m EXCEPT !.YOffset = max(m.YOffset - n, 0)]

\* a tea.Cmd as the viewport returns it: nil, or tea.ScrollDown, tea.ScrollUp
\* or tea.SyncScrollArea of (lines, topBoundary, bottomBoundary)
NilCmd == [kind |-> "nil", lines |-> <<>>, top |-> 0, bottom |-> 0]

\* a command function's result: the command, or a panic
Cmd(c) == [cmd |-> c, panic |-> FALSE]
CmdPanic == [cmd |-> NilCmd, panic |-> TRUE]

\* tea.<kind>(m.lines[top:bottom], m.YPosition, m.YPosition+m.Height); the
\* lines come from strings.Split, so their capacity is their length
ScrollArea(kind, m, top, bottom) ==
  IF SliceOK(m.lines, top, bottom)
  THEN Cmd([kind |-> kind, lines |-> Slice(m.lines, top, bottom),
            top |-> m.YPosition, bottom |-> m.YPosition + m.Height])
  ELSE CmdPanic

\* viewport.Sync
Sync(m) ==
  LET top == max(m.YOffset, 0)
      bottom == min(m.YOffset + m.Height, Len(m.lines) - 1)
  IN ScrollArea("SyncScrollArea", m, top, bottom)

\* viewport.ViewDown
ViewDown(m) ==
  IF AtBottom(m) THEN Cmd(NilCmd)
  ELSE LET top == max(m.YOffset + m.Height, 0)
           bottom == min(top + m.Height, Len(m.lines) - 1)
       IN ScrollArea("ScrollDown", m, top, bottom)

\* viewport.ViewUp
ViewUp(m) ==
  IF AtTop(m) THEN Cmd(NilCmd)
  ELSE LET top == max(m.YOffset - m.Height, 0)
           bottom == min(m.YOffset, Len(m.lines) - 1)
       IN ScrollArea("ScrollUp", m, top, bottom)

\* viewport.HalfViewDown
HalfViewDown(m) ==
  IF AtBottom(m) THEN Cmd(NilCmd)
  ELSE LET top == max(m.YOffset + Half(m.Height), 0)
           bottom == min(top + m.Height, Len(m.lines) - 1)
       IN ScrollArea("ScrollDown", m, top, bottom)

\* viewport.HalfViewUp
HalfViewUp(m) ==
  IF AtTop(m) THEN Cmd(NilCmd)
  ELSE LET top == max(m.YOffset - Half(m.Height), 0)
           bottom == clamp(m.YOffset, top, Len(m.lines) - 1)
       IN ScrollArea("ScrollUp", m, top, bottom)

\* viewport.LineDown
LineDown(m, n) ==
  IF AtBottom(m) \/ n = 0 THEN Cmd(NilCmd)
  ELSE LET bottom == min(m.YOffset + m.Height + n, Len(m.lines) - 1)
           top == max(bottom - n, 0)
       IN ScrollArea("ScrollDown", m, top, bottom)

\* viewport.LineUp
LineUp(m, n) ==
  IF AtTop(m) \/ n = 0 THEN Cmd(NilCmd)
  ELSE LET top == max(m.YOffset - n, 0)
           bottom == min(top + n, Len(m.lines) - 1)
       IN ScrollArea("ScrollUp", m, top, bottom)

\* the strings msg.String() yields for the key messages the viewport is sent
Keys == { "pgdown", " ", "f", "pgup", "b", "d", "u", "down", "j", "up", "k",
          "q" }

\* the case of viewport.Update's switch a key falls in
KeyCase(key) ==
  CASE key \in {"pgdown", " ", "f"} -> "ViewDown"
    [] key \in {"pgup", "b"}        -> "ViewUp"
    [] key = "d"                    -> "HalfViewDown"
    [] key = "u"                    -> "HalfViewUp"
    [] key \in {"down", "j"}        -> "LineDown"
    [] key \in {"up", "k"}          -> "LineUp"
    [] OTHER                        -> "none"

\* viewport.Update: what one case of its switch returns, the command first
\* (only in high performance rendering, from the model before it moves; a
\* panic there ends the call), then the method on the model
Case(m, c, moved) ==
  IF m.HighPerformanceRendering /\ c.panic
  THEN [m |-> m, cmd |-> NilCmd, panic |-> TRUE]
  ELSE [m |-> moved,
        cmd |-> IF m.HighPerformanceRendering THEN c.cmd ELSE NilCmd,
        panic |-> FALSE]

\* viewport.Update on a key message whose String() is key
ViewportUpdate(key, m) ==
  CASE key \in {"pgdown", " ", "f"} -> Case(m, ViewDown(m), ModelViewDown(m))
    [] key \in {"pgup", "b"}        -> Case(m, ViewUp(m), ModelViewUp(m))
    [] key = "d"     -> Case(m, HalfViewDown(m), ModelHalfViewDown(m))
    [] key = "u"     -> Case(m, HalfViewUp(m), ModelHalfViewUp(m))
    [] key \in {"down", "j"}        -> Case(m, LineDown(m, 1), ModelLineDown(m, 1))
    [] key \in {"up", "k"}          -> Case(m, LineUp(m, 1), ModelLineUp(m, 1))
    [] OTHER         -> [m |-> m, cmd |-> NilCmd, panic |-> FALSE]

\* viewport.View's result: the string returned, or a panic
Out(s) == [out |-> s, panic |-> FALSE]
OutPanic == [out |-> <<>>, panic |-> TRUE]

\* viewport.View, the lines shown when m.lines is not empty
Visible(m) ==
  LET top == max(0, m.YOffset)
      bottom == min(Len(m.lines), m.YOffset + m.Height)
  IN IF SliceOK(m.lines, top, bottom)
     THEN [lines |-> Slice(m.lines, top, bottom), panic |-> FALSE]
     ELSE [lines |-> <<>>, panic |-> TRUE]

\* viewport.View
ViewportView(m) ==
  IF m.HighPerformanceRendering
  THEN IF m.Height - 1 >= 0 THEN Out(RepeatLF(m.Height - 1)) ELSE OutPanic
  ELSE IF m.Err # ""
  THEN Out(<<m.Err>>)
  ELSE LET v == IF Len(m.lines) > 0 THEN Visible(m)
                ELSE [lines |-> <<>>, panic |-> FALSE]
           extraLines == IF Len(v.lines) < m.Height
                         THEN RepeatLF(m.Height - Len(v.lines))
                         ELSE <<>>
       IN IF v.panic THEN OutPanic ELSE Out(JoinLF(v.lines) \o extraLines)

\* ------------------------------------------------------------ the program

\* the spec's range of a scroll offset, 0 <= offset <= max(0, len(lines) - height)
InRange(m) == 0 <= m.YOffset /\ m.YOffset <= max(0, Len(m.lines) - m.Height)

\* the heights NewModel and SetSize are given, the n LineDown and LineUp are
\* given (both are Go ints, so a negative one is possible), the offsets the
\* model follows
Heights == (0 - 1)..MaxHeight
Ns == (0 - 1)..MaxN
Offsets == (0 - MaxNeg)..(MaxLines + 1)

\* what tfLast holds for a call: the call, the model it was given, what it
\* returned and, for a backspace right after a KeyRune, the value and caret
\* that KeyRune was given (prev, otherwise empty)
InputLast(type, s, cmd, out) ==
  [type |-> type, s |-> s, Value |-> Value, pos |-> pos, blink |-> blink,
   cmd |-> cmd, out |-> out,
   prev |-> IF type \in {"KeyBackspace", "KeyDelete"} /\ tfLast.type = "KeyRune"
            THEN <<[Value |-> tfLast.Value, pos |-> tfLast.pos]>> ELSE <<>>]

\* the text input is m, just constructed
InputIs(m) ==
  /\ Value = m.Value
  /\ pos = m.pos
  /\ blink = m.blink
  /\ tfLast = InputLast("DefaultModel", <<>>, "nil", <<>>)
  /\ blinks = 0

\* the text input after DefaultModel
InputInit == InputIs(DefaultModel)

\* the text input after DefaultModel and the host's assignment of "hello
\* world" to the exported field Value
HelloWorld == <<"h", "e", "l", "l", "o", " ", "w", "o", "r", "l", "d">>
PrefilledInit == InputIs([DefaultModel EXCEPT !.Value = HelloWorld])

\* the values the text input is driven to: it grows up to MaxLen bytes, and
\* a prefilled value shrinks by up to MaxDeleted bytes (or to MaxLen bytes)
Driven(old, new) ==
  \/ Len(new) <= MaxLen
  \/ Len(new) <= Len(old) /\ Len(HelloWorld) - MaxDeleted <= Len(new)

\* whether a call is a page down, and whether the call before was a page up
\* that returned: the method, or Update on one of its keys
IsPageDown(op, branch) ==
  op = "ViewDown" \/ (op = "Update" /\ branch = "ViewDown")
PageUpActed ==
  \/ svLast.op = "ViewUp"
  \/ svLast.op = "Update" /\ svLast.branch = "ViewUp" /\ ~panicked

\* what svLast holds for a call: the call, the offset it was given, what it
\* returned and, for a page down right after a page up, the offset that page
\* up was given (prev, otherwise empty)
Last(op, branch, args, stale, cmd, out) ==
  [op |-> op, branch |-> branch, args |-> args, YOffset |-> YOffset,
   stale |-> stale, cmd |-> cmd, out |-> out,
   prev |-> IF IsPageDown(op, branch) /\ PageUpActed
            THEN <<svLast.YOffset>> ELSE <<>>]

\* the viewport is m
ViewportIs(m) ==
  /\ Err = m.Err
  /\ Width = m.Width
  /\ Height = m.Height
  /\ YOffset = m.YOffset
  /\ YPosition = m.YPosition
  /\ HighPerformanceRendering = m.HighPerformanceRendering
  /\ lines = m.lines

\* the viewport becomes m
ViewportBecomes(m) ==
  /\ Err' = m.Err
  /\ Width' = m.Width
  /\ Height' = m.Height
  /\ YOffset' = m.YOffset
  /\ YPosition' = m.YPosition
  /\ HighPerformanceRendering' = m.HighPerformanceRendering
  /\ lines' = m.lines

\* the viewport after NewModel(80, h) and the host's assignments to the
\* exported fields that have no setter
ViewportInit ==
  /\ \E h \in Heights, hp \in BOOLEAN, e \in {"", "load failed"} :
       ViewportIs([NewModel(80, h) EXCEPT !.HighPerformanceRendering = hp,
                                          !.Err = e])
  /\ svLast = Last("NewModel", "", <<>>, FALSE, NilCmd, <<>>)
  /\ since = "top"
  /\ run = "none"

\* a widget the host holds but does not drive
InputIdle == InputInit
ViewportIdle ==
  /\ ViewportIs(NewModel(80, 0))
  /\ svLast = Last("NewModel", "", <<>>, FALSE, NilCmd, <<>>)
  /\ since = "top"
  /\ run = "none"

\* ---- the text input's steps

\* the host passes msg to input.Update and keeps the model it returns
InputStep(msg) ==
  /\ ~panicked
  /\ LET r == InputUpdate(msg, TheModel)
     IN /\ Driven(Value, r.m.Value)
        /\ Value' = r.m.Value
        /\ pos' = r.m.pos
        /\ blink' = r.m.blink
        /\ panicked' = r.panic
        /\ tfLast' = InputLast(msg.type, msg.s, r.cmd, <<>>)
  /\ blinks' = IF msg.type = "CursorBlinkMsg" THEN (blinks + 1) % 2 ELSE blinks
  /\ UNCHANGED svVars

Key(t) == [type |-> t, s |-> <<>>]

PressBackspace == InputStep(Key("KeyBackspace"))
PressDelete == InputStep(Key("KeyDelete"))
PressLeft == InputStep(Key("KeyLeft"))
PressRight == InputStep(Key("KeyRight"))
PressCtrlA == InputStep(Key("KeyCtrlA"))
PressCtrlD == InputStep(Key("KeyCtrlD"))
PressCtrlE == InputStep(Key("KeyCtrlE"))
PressCtrlK == InputStep(Key("KeyCtrlK"))
PressRune == \E s \in Runes : InputStep([type |-> "KeyRune", s |-> s])
PressOtherKey == InputStep(Key("KeyEnter"))
\* the message input.Blink returns after its sleep
BlinkTick == InputStep(Key("CursorBlinkMsg"))
OtherInputMsg == InputStep(Key("OtherMsg"))

\* the host renders the text input
RenderInput ==
  /\ ~panicked
  /\ panicked' = InputViewPanics(TheModel)
  /\ tfLast' = InputLast("View", <<>>, "nil",
                         IF InputViewPanics(TheModel) THEN <<>>
                         ELSE InputView(TheModel))
  /\ UNCHANGED <<Value, pos, blink, blinks, svVars>>

InputNext ==
  \/ PressBackspace \/ PressDelete \/ PressLeft \/ PressRight \/ PressCtrlA
  \/ PressCtrlD \/ PressCtrlE \/ PressCtrlK \/ PressRune \/ PressOtherKey
  \/ BlinkTick \/ OtherInputMsg \/ RenderInput

\* ---- the viewport's steps

\* whether the call just before was a SetContent or SetSize that took an
\* offset in the range out of it
LeftStale == svLast.op \in {"SetContent", "SetSize"} /\ svLast.stale

\* the downward navigations: page down, half page down and one line down
Downward == {"ViewDown", "HalfViewDown", "LineDown"}

\* run after a navigation: kind is the downward navigation made ("mixed" for
\* any other), and the run goes on while it is the same one
RunAfter(kind) == IF run \in {"none", kind} THEN kind ELSE "mixed"

\* a navigation method is called on the host's model
Navigate(op, args, m) ==
  /\ ~panicked
  /\ m.YOffset \in Offsets
  /\ ViewportBecomes(m)
  /\ svLast' = Last(op, "", args, LeftStale, NilCmd, <<>>)
  /\ since' = IF since = "top" /\ \E i \in 1..Len(args) : args[i] < 0
              THEN "neg" ELSE since
  /\ run' = RunAfter(IF op \in Downward /\ args \in {<<>>, <<1>>}
                     THEN op ELSE "mixed")
  /\ UNCHANGED <<tfVars, panicked>>

CallViewDown == Navigate("ViewDown", <<>>, ModelViewDown(TheViewport))
CallViewUp == Navigate("ViewUp", <<>>, ModelViewUp(TheViewport))
CallHalfViewDown == Navigate("HalfViewDown", <<>>, ModelHalfViewDown(TheViewport))
CallHalfViewUp == Navigate("HalfViewUp", <<>>, ModelHalfViewUp(TheViewport))
CallLineDown == \E n \in Ns : Navigate("LineDown", <<n>>, ModelLineDown(TheViewport, n))
CallLineUp == \E n \in Ns : Navigate("LineUp", <<n>>, ModelLineUp(TheViewport, n))

\* the host replaces the content
CallSetContent ==
  /\ ~panicked
  /\ \E s \in Contents :
       LET m == SetContent(TheViewport, s)
       IN /\ ViewportBecomes(m)
          /\ svLast' = Last("SetContent", "", <<>>,
                            InRange(TheViewport) /\ ~InRange(m), NilCmd, <<>>)
  /\ since' = IF YOffset = 0 THEN "top" ELSE "moved"
  /\ run' = IF YOffset = 0 THEN "none" ELSE "mixed"
  /\ UNCHANGED <<tfVars, panicked>>

\* the host resizes the viewport
CallSetSize ==
  /\ ~panicked
  /\ \E yPos \in {1}, width \in {40}, height \in {0, MaxHeight} :
       LET m == SetSize(TheViewport, yPos, width, height)
       IN /\ ViewportBecomes(m)
          /\ svLast' = Last("SetSize", "", <<yPos, width, height>>,
                            InRange(TheViewport) /\ ~InRange(m), NilCmd, <<>>)
  /\ UNCHANGED <<tfVars, since, run, panicked>>

\* the host passes a key message to viewport.Update, keeps the model and runs
\* the command it returns
PressKey ==
  /\ ~panicked
  /\ \E key \in Keys :
       LET r == ViewportUpdate(key, TheViewport)
       IN /\ r.m.YOffset \in Offsets
          /\ ViewportBecomes(r.m)
          /\ panicked' = r.panic
          /\ svLast' = Last("Update", KeyCase(key), <<>>, LeftStale, r.cmd, <<>>)
          /\ run' = IF KeyCase(key) = "none" THEN run
                    ELSE RunAfter(IF KeyCase(key) \in Downward
                                  THEN KeyCase(key) ELSE "mixed")
  /\ UNCHANGED <<tfVars, since>>

\* viewport.Update on a message that is no key message
OtherViewportMsg ==
  /\ ~panicked
  /\ svLast' = Last("Update", "none", <<>>, FALSE, NilCmd, <<>>)
  /\ UNCHANGED <<tfVars, Err, Width, Height, YOffset, YPosition,
                 HighPerformanceRendering, lines, since, run, panicked>>

\* the host renders the viewport
RenderViewport ==
  /\ ~panicked
  /\ LET v == ViewportView(TheViewport)
     IN /\ panicked' = v.panic
        /\ svLast' = Last("View", "", <<>>, LeftStale, NilCmd, v.out)
  /\ UNCHANGED <<tfVars, Err, Width, Height, YOffset, YPosition,
                 HighPerformanceRendering, lines, since, run>>

\* the host asks for the command that redraws the whole viewport
CallSync ==
  /\ ~panicked
  /\ LET c == Sync(TheViewport)
     IN /\ panicked' = c.panic
        /\ svLast' = Last("Sync", "", <<>>, LeftStale, c.cmd, <<>>)
  /\ UNCHANGED <<tfVars, Err, Width, Height, YOffset, YPosition,
                 HighPerformanceRendering, lines, since, run>>

ViewportNext ==
  \/ CallViewDown \/ CallViewUp \/ CallHalfViewDown \/ CallHalfViewUp
  \/ CallLineDown \/ CallLineUp \/ CallSetContent \/ CallSetSize
  \/ PressKey \/ OtherViewportMsg \/ RenderViewport \/ CallSync

\* ---- specifications

\* a host that drives one text input
InitInput == InputInit /\ ViewportIdle /\ panicked = FALSE
SpecInput == InitInput /\ [][InputNext]_vars

\* a host that drives one text input it has prefilled
InitPrefilled == PrefilledInit /\ ViewportIdle /\ panicked = FALSE
SpecPrefilled == InitPrefilled /\ [][InputNext]_vars

\* a host that drives one viewport
InitViewport == InputIdle /\ ViewportInit /\ panicked = FALSE
SpecViewport == InitViewport /\ [][ViewportNext]_vars

\* a host that drives one of each
Init == InputInit /\ ViewportInit /\ panicked = FALSE
Next == InputNext \/ ViewportNext
Spec == Init /\ [][Next]_vars

\* ------------------------------------------------------------- the claims

\* the viewport model the last call was given (only YOffset ever differs)
Before == [TheViewport EXCEPT !.YOffset = svLast.YOffset]

\* C1 as stated: after any sequence of update events from the initial field
\* the caret satisfies 0 <= caret <= len(value).  KeyCtrlE on the empty
\* field sets pos to -1.
C1_CaretInRange == 0 <= pos /\ pos <= Len(Value)

\* C2 as stated: no sequence of recognized events makes Update or View fail
\* with an index or slice out of range.
C2_NeverFails == ~panicked

\* C3 as stated: KeyBackspace/KeyDelete with caret 0 returns the same value
\* and caret 0, without error, also when the value is not empty (here for
\* values of one-byte characters).
C3_BackspaceAtZeroIsNoOp ==
  (/\ tfLast.type \in {"KeyBackspace", "KeyDelete"} /\ tfLast.pos = 0
   /\ \A i \in 1..Len(tfLast.Value) : tfLast.Value[i] \in Ascii)
    => (~panicked /\ Value = tfLast.Value /\ pos = 0)

\* C4 as stated: for fixed content and height >= 0, from offset 0, after any
\* navigation calls, LineDown(n) and LineUp(n) with any n among them, the
\* offset is within 0..max(0, len(lines) - height).
C4_OffsetInRange_AnyN ==
  (since \in {"top", "neg"} /\ Height >= 0) => InRange(TheViewport)

\* C4 as amended: the same with n >= 0 in every LineDown(n) and LineUp(n).
C4_OffsetInRange ==
  (since = "top" /\ Height >= 0) => InRange(TheViewport)

\* C4's case: a LineDown has moved the view onto the clamp's fallback, the
\* last offset of the range
C4_Witness ==
  /\ since = "top" /\ Height >= 1
  /\ svLast.op = "LineDown" /\ svLast.args = <<MaxN>>
  /\ svLast.YOffset + MaxN > Len(lines) - Height
  /\ YOffset > svLast.YOffset
  /\ YOffset = Len(lines) - Height

\* a page down has acted: Model.ViewDown, or Update on one of its keys
PageDownActed ==
  \/ svLast.op = "ViewDown"
  \/ svLast.op = "Update" /\ svLast.branch = "ViewDown" /\ ~panicked

\* C5 as stated: after pageDown the offset is <= len(lines) - height and >=
\* the offset before, and at the bottom pageDown leaves it the same; here
\* only for content that was set, height >= 0 and a start in range.
C5_PageDownBound_Stated ==
  (PageDownActed /\ Len(lines) >= 1 /\ Height >= 0 /\ InRange(Before))
    => /\ YOffset <= Len(lines) - Height
       /\ YOffset >= svLast.YOffset
       /\ (AtBottom(Before) => YOffset = svLast.YOffset)

\* C5 as amended: for every content, height and starting offset, after
\* pageDown the offset is <= max(offset before, len(lines) - height); for
\* height >= 0 it is >= the offset before; and at the bottom (AtBottom)
\* pageDown leaves the offset the same.
C5_PageDownBound ==
  PageDownActed
    => /\ YOffset <= max(svLast.YOffset, Len(lines) - Height)
       /\ (Height >= 0 => YOffset >= svLast.YOffset)
       /\ (AtBottom(Before) => YOffset = svLast.YOffset)

\* C5's case: a page down whose target passes len(lines) - height has moved
\* the view
C5_Witness ==
  /\ PageDownActed
  /\ svLast.YOffset + Height > Len(lines) - Height
  /\ YOffset > svLast.YOffset
  /\ YOffset = Len(lines) - Height

\* a navigation has acted: one of the six methods, or Update on one of their
\* keys
NavigationActed ==
  \/ svLast.op \in {"ViewDown", "ViewUp", "HalfViewDown", "HalfViewUp",
                    "LineDown", "LineUp"}
  \/ svLast.op = "Update" /\ svLast.branch # "none" /\ ~panicked

\* C6 as stated: SetContent and SetSize never change the offset, and when
\* one of them takes an offset of the range out of it, the very next
\* navigation call brings it back into 0..max(0, len(lines) - height); here
\* for height >= 1.
C6_NextNavigationReclamps ==
  /\ svLast.op \in {"SetContent", "SetSize"} => YOffset = svLast.YOffset
  /\ (NavigationActed /\ svLast.stale /\ Height >= 1) => InRange(TheViewport)

\* C7 as stated: after SetSize(yPos, width, height) the model's YPosition,
\* Width and Height are the arguments, and the offset is what it was.
C7_SetSizeReplacesGeometry ==
  svLast.op = "SetSize"
    => /\ YPosition = svLast.args[1]
       /\ Width = svLast.args[2]
       /\ Height = svLast.args[3]
       /\ YOffset = svLast.YOffset

\* the slice the spec's standard render shows, and its rendering
SpecSlice(m) ==
  Slice(m.lines, clamp(m.YOffset, 0, Len(m.lines)),
        clamp(m.YOffset + m.Height, 0, Len(m.lines)))
SpecRender(m) ==
  JoinLF(SpecSlice(m)) \o RepeatLF(max(0, m.Height - Len(SpecSlice(m))))

\* C8 as stated: with HighPerformanceRendering off and no Err, for every
\* offset, a stale one left by SetContent included, View never fails and
\* returns lines[clamp(offset,0,len) : clamp(offset+height,0,len)] joined by
\* newlines and padded with newlines to height; here for height >= 1 and an
\* offset that is in the range or was until the SetContent just before.
C8_StandardRender ==
  (/\ svLast.op = "View" /\ ~HighPerformanceRendering /\ Err = ""
   /\ Height >= 1 /\ (InRange(TheViewport) \/ svLast.stale))
    => (~panicked /\ svLast.out = SpecRender(TheViewport))

\* Update has handled a key of the given cases in high performance
\* rendering, from an offset in the range, the height being at least min
KeyHandled(cases, minHeight) ==
  /\ svLast.op = "Update" /\ svLast.branch \in cases
  /\ HighPerformanceRendering
  /\ Height >= minHeight
  /\ InRange(Before)

\* C9 as stated: in high performance rendering a downward key handled from
\* an offset in the range returns a ScrollDown of exactly the newly revealed
\* lines, lines[oldOffset+height : newOffset+height], newOffset - oldOffset
\* of them; here for height >= 1 and a key that moves the view.
C9_ScrollDownDelta ==
  (/\ KeyHandled({"ViewDown", "HalfViewDown", "LineDown"}, 1)
   /\ (panicked \/ YOffset > svLast.YOffset))
    => /\ ~panicked
       /\ svLast.cmd.kind = "ScrollDown"
       /\ svLast.cmd.lines
            = Slice(lines, svLast.YOffset + Height, YOffset + Height)
       /\ Len(svLast.cmd.lines) = YOffset - svLast.YOffset

\* C10 as stated: in high performance rendering an upward key handled from
\* an offset in the range returns a ScrollUp of exactly the newly revealed
\* lines, lines[newOffset : oldOffset], oldOffset - newOffset of them; here
\* for height >= 0.
C10_ScrollUpDelta ==
  (/\ KeyHandled({"ViewUp", "HalfViewUp", "LineUp"}, 0)
   /\ ~AtTop(Before))
    => /\ ~panicked
       /\ svLast.cmd.kind = "ScrollUp"
       /\ svLast.cmd.lines = Slice(lines, YOffset, svLast.YOffset)
       /\ Len(svLast.cmd.lines) = svLast.YOffset - YOffset

\* C11 as stated: after content was set and the view navigated, Sync never
\* fails and its command carries the slice standard rendering shows,
\* lines[max(offset,0) : min(offset+height, len(lines))], with the rows
\* YPosition and YPosition + Height; here for height >= 1 and an offset in
\* the range.
C11_SyncIsVisibleSlice ==
  (/\ svLast.op = "Sync" /\ Len(lines) >= 1 /\ Height >= 1
   /\ InRange(TheViewport))
    => /\ ~panicked
       /\ svLast.cmd.kind = "SyncScrollArea"
       /\ svLast.cmd.lines
            = Slice(lines, max(YOffset, 0), min(YOffset + Height, Len(lines)))
       /\ svLast.cmd.top = YPosition
       /\ svLast.cmd.bottom = YPosition + Height

\* C12 as stated: Update returns a command if and only if high performance
\* rendering is on and the key's navigation changes the offset; with it off,
\* or when the navigation is a no-op, the command is nil; here for content
\* that was set, height >= 1 and an offset in the range.
C12_EffectIffMoved ==
  (/\ svLast.op = "Update" /\ Len(lines) >= 1 /\ Height >= 1
   /\ InRange(Before))
    => /\ ~panicked
       /\ (svLast.cmd.kind # "nil")
            <=> (HighPerformanceRendering /\ YOffset # svLast.YOffset)

\* the page up and page down just before were given offset y, with Update
\* (if that was the call) returning
RoundTripFrom(y) == svLast.prev = <<y>> /\ ~panicked

\* C13 as stated: for every offset strictly between 0 and len(lines) -
\* height, when height divides len(lines) - height, a page up followed by a
\* page down returns the offset to what it was.
C13_RoundTrip_Stated ==
  \A y \in Offsets :
    (/\ RoundTripFrom(y) /\ Height >= 1
     /\ 0 < y /\ y < Len(lines) - Height
     /\ (Len(lines) - Height) % Height = 0)
      => YOffset = y

\* C13 as amended: for height >= 1 and every offset with height <= offset <
\* len(lines) - height, a page up followed by a page down returns the offset
\* to what it was, whether or not height divides len(lines) - height.
C13_RoundTrip ==
  \A y \in Offsets :
    (/\ RoundTripFrom(y) /\ Height >= 1
     /\ Height <= y /\ y < Len(lines) - Height)
      => YOffset = y

\* C13's case: a page up moved the view up by a page, and the page down
\* right after it brought it back
C13_Witness ==
  \E y \in Offsets :
    /\ RoundTripFrom(y) /\ Height >= 1
    /\ Height <= y /\ y < Len(lines) - Height
    /\ svLast.YOffset = y - Height
    /\ YOffset = y

\* the text input's last call was an Update on a message of one of the given
\* types, given a caret within 0..len(value)
Handled(types) ==
  /\ tfLast.type \in types
  /\ 0 <= tfLast.pos /\ tfLast.pos <= Len(tfLast.Value)

\* C14: for every value and caret with 0 <= caret <= L, a KeyRune of string
\* c returns value[0:caret] + c + value[caret:L] and caret + 1, with the
\* blink flag what it was, and does not fail.
C14_RuneInsertedAtCaret ==
  Handled({"KeyRune"})
    => /\ ~panicked
       /\ Value = Slice(tfLast.Value, 0, tfLast.pos) \o tfLast.s
                    \o Slice(tfLast.Value, tfLast.pos, Len(tfLast.Value))
       /\ pos = tfLast.pos + 1
       /\ blink = tfLast.blink

\* C14's case: a rune was inserted between the two bytes of a value
C14_Witness ==
  /\ Handled({"KeyRune"}) /\ tfLast.s = <<"a">>
  /\ tfLast.Value = <<"c3", "a9">> /\ tfLast.pos = 1
  /\ Value = <<"c3", "a", "a9">> /\ pos = 2

\* C15: KeyCtrlD with L > 0 and caret < L removes exactly the unit at index
\* caret and leaves the caret where it was; with caret = L or L = 0 it
\* changes nothing; it does not fail.
C15_DeleteUnderCaret ==
  tfLast.type = "KeyCtrlD"
    => /\ ~panicked
       /\ pos = tfLast.pos
       /\ Value = IF Len(tfLast.Value) > 0 /\ tfLast.pos < Len(tfLast.Value)
                  THEN Slice(tfLast.Value, 0, tfLast.pos)
                         \o Slice(tfLast.Value, tfLast.pos + 1, Len(tfLast.Value))
                  ELSE tfLast.Value

\* C15's case: KeyCtrlD removed the middle unit of a value of three
C15_Witness ==
  /\ tfLast.type = "KeyCtrlD"
  /\ Len(tfLast.Value) = 3 /\ tfLast.pos = 1
  /\ Value = <<tfLast.Value[1], tfLast.Value[3]>> /\ pos = 1
  /\ tfLast.Value[1] # tfLast.Value[2]

\* the scenario's call: KeyCtrlD on the value "hello world" with caret 5
HelloWorldCtrlD ==
  tfLast.type = "KeyCtrlD" /\ tfLast.Value = HelloWorld /\ tfLast.pos = 5

\* C16 as stated: the value "hello world" with caret 5 becomes, on KeyCtrlD,
\* "hell world" with caret 5.
C16_Scenario_Stated ==
  HelloWorldCtrlD
    => /\ Value = <<"h", "e", "l", "l", " ", "w", "o", "r", "l", "d">>
       /\ pos = 5

\* C16 as amended: the value "hello world" with caret 5 becomes, on KeyCtrlD,
\* "helloworld" with caret 5 (the unit at index 5 is the space).
C16_Scenario ==
  HelloWorldCtrlD
    => /\ ~panicked
       /\ Value = <<"h", "e", "l", "l", "o", "w", "o", "r", "l", "d">>
       /\ pos = 5

\* C16's case: the scenario's call has returned
C16_Witness == HelloWorldCtrlD /\ ~panicked /\ Len(Value) = Len(HelloWorld) - 1

\* C17: a CursorBlinkMsg flips blink, leaves value and caret what they were
\* and returns no command; no other message changes blink; so blink is true
\* exactly when an odd number of CursorBlinkMsg was delivered.
C17_BlinkFrame ==
  /\ tfLast.type = "CursorBlinkMsg"
       => /\ ~panicked
          /\ blink = ~tfLast.blink
          /\ Value = tfLast.Value /\ pos = tfLast.pos
          /\ tfLast.cmd = "nil"
  /\ tfLast.type # "CursorBlinkMsg" => blink = tfLast.blink
  /\ blink = (blinks = 1)

\* C17's case: the second CursorBlinkMsg of a field that was edited in
\* between has put blink back to false
C17_Witness ==
  /\ tfLast.type = "CursorBlinkMsg" /\ tfLast.blink
  /\ ~blink /\ blinks = 0
  /\ Len(Value) > 0

\* C20 as stated: from every state the text input reaches, a KeyRune
\* followed immediately by a KeyBackspace or KeyDelete restores the value and
\* the caret held before the pair.
C20_InsertBackspaceRoundTrip ==
  tfLast.prev # <<>>
    => /\ ~panicked
       /\ Value = tfLast.prev[1].Value
       /\ pos = tfLast.prev[1].pos

\* C18 as stated: whenever the viewport holds an error, View returns that
\* error's message, with high performance rendering on or off; here for
\* height >= 1.
C18_ErrorRender ==
  (svLast.op = "View" /\ Err # "" /\ Height >= 1)
    => (~panicked /\ svLast.out = <<Err>>)

\* the last call was the downward navigation that run names, repeated alone
\* since the content was fixed at offset 0
Repeated ==
  /\ run \in Downward
  /\ \/ svLast.op = run
     \/ svLast.op = "Update" /\ svLast.branch = run

\* C19 as stated: for len(lines) > height > 0, repeating one downward
\* navigation (page down, half page down or one line down) from offset 0
\* brings the offset to len(lines) - height, where it stays; so a call of
\* the run that leaves the offset where it was, after which every further
\* call does, has the offset at len(lines) - height.
C19_BottomReached ==
  (/\ Repeated /\ Len(lines) > Height /\ Height > 0
   /\ YOffset = svLast.YOffset)
    => YOffset = Len(lines) - Height

====
